---- MODULE Spec2Model ----
(***************************************************************************)
(* Model of altair/v2/api.py: the three top-level composites (Chart,       *)
(* LayeredChart, FacetedChart), their data binding, the finalization of    *)
(* the data binding, export to a document and import from a document.      *)
(*                                                                         *)
(* An object is a record [cls, _data, fields]: fields maps the names of    *)
(* the traits that are set to their values; a trait that is not in the     *)
(* domain of fields holds the undefined sentinel.  A document is a         *)
(* function from the keys it holds to their values.                        *)
(***************************************************************************)
EXTENDS Integers, Sequences, FiniteSets, TLC

VARIABLES heap, out, appends

vars == <<heap, out, appends>>

----------------------------------------------------------------------------
(* Program constants *)

DEFAULT_MAX_ROWS == 5000

vegalite_schema_url == "https://vega.github.io/schema/vega-lite/v2.json"

SkipLayerToo == {"data", "_data", "max_rows", "layer"}

_skip_on_export == {"data", "_data", "max_rows"}

----------------------------------------------------------------------------
(* Bounds of the model *)

MaxLimit == 1

MaxLayers == 2

Limits == (0..MaxLimit) \cup {DEFAULT_MAX_ROWS}

RowCounts == (0..(MaxLimit + 1)) \cup {DEFAULT_MAX_ROWS, DEFAULT_MAX_ROWS + 1}

ChartIds == {"c1", "c2"}

LayeredIds == {"l1", "l2"}

FacetedIds == {"f1"}

Ids == ChartIds \cup LayeredIds \cup FacetedIds

Bindable == {"c1"} \cup LayeredIds \cup FacetedIds

Marks == {"point", "bar"}

Urls == {"data.json"}

AllCols == {"a", "b"}

----------------------------------------------------------------------------
(* Values a data binding is assigned from *)

None == [kind |-> "None"]

Data(url) == [kind |-> "Data", fields |-> ("url" :> url)]

DataOfDoc(d) == [kind |-> "Data", fields |-> d]

Table(n, cs) == [kind |-> "DataFrame", nrows |-> n, cols |-> cs]

Expression(text) == [kind |-> "Expression", text |-> text]

repr(e) == e.text

NoCols == [given |-> FALSE, names |-> {}]

Cols(cs) == [given |-> TRUE, names |-> cs]

ExprFrame(tbl, cols, calc, filters) ==
    [kind |-> "expr.DataFrame", _data |-> tbl, _cols |-> cols,
     _calculated_cols |-> calc, _filters |-> filters]

Str(s) == [kind |-> "str", value |-> s]

Other(k) == [kind |-> k]

IsTable(d) == d.kind = "DataFrame"

IsExprFrame(d) == d.kind = "expr.DataFrame"

Tables == {Table(n, AllCols) : n \in RowCounts}

FilterLists ==
    {<<>>, <<Expression("datum.a > 1")>>,
     <<Expression("datum.a > 1"), Expression("datum.b < 2")>>}

CalcDicts == {<<>>, ("c" :> Expression("datum.a * 2"))}

ExprFrames ==
    {ExprFrame(Table(MaxLimit + 1, AllCols), NoCols, calc, fl) :
        calc \in CalcDicts, fl \in FilterLists}
    \cup {ExprFrame(Table(MaxLimit + 1, AllCols), Cols({"a"}), <<>>, fl) :
            fl \in FilterLists}

DataInputs ==
    {None} \cup {Str(u) : u \in Urls} \cup {Data(u) : u \in Urls}
    \cup Tables \cup ExprFrames \cup {Other("int"), Other("list")}

----------------------------------------------------------------------------
(* Objects *)

NoObj == [cls |-> "none", _data |-> None, fields |-> <<>>]

NewChart ==
    [cls |-> "Chart", _data |-> None,
     fields |-> ("max_rows" :> DEFAULT_MAX_ROWS @@ "mark" :> "point")]

NewLayeredChart ==
    [cls |-> "LayeredChart", _data |-> None,
     fields |-> ("max_rows" :> DEFAULT_MAX_ROWS)]

NewFacetedChart ==
    [cls |-> "FacetedChart", _data |-> None,
     fields |-> ("max_rows" :> DEFAULT_MAX_ROWS)]

IsSet(obj, name) == name \in DOMAIN obj.fields

SetField(obj, name, value) ==
    [obj EXCEPT !.fields = (name :> value) @@ obj.fields]

----------------------------------------------------------------------------
(* Errors: the exception type, the numbers its message reports and the     *)
(* kinds its message names                                                 *)

NoErr == [type |-> "none", numbers |-> {}, names |-> {}]

MaxRowsExceeded(reported) ==
    [type |-> "MaxRowsExceeded", numbers |-> reported, names |-> {}]

TypeError(named) == [type |-> "TypeError", numbers |-> {}, names |-> named]

UnknownFieldError(named) ==
    [type |-> "UnknownFieldError", numbers |-> {}, names |-> named]

Return(obj) == [err |-> NoErr, obj |-> obj]

Raise(e, obj) == [err |-> e, obj |-> obj]

----------------------------------------------------------------------------
(* The data setter of each composite *)

AcceptedKinds == {"None", "DataFrame", "expr.DataFrame", "Data"}

Chart_data_setter(self, new) ==
    IF new.kind = "str" THEN Return([self EXCEPT !._data = Data(new.value)])
    ELSE IF new.kind \in AcceptedKinds THEN Return([self EXCEPT !._data = new])
    ELSE Raise(TypeError({"DataFrame", "altair.Data"}), self)

LayeredChart_data_setter(self, new) ==
    IF new.kind = "str" THEN Return([self EXCEPT !._data = Data(new.value)])
    ELSE IF new.kind \in AcceptedKinds THEN Return([self EXCEPT !._data = new])
    ELSE Raise(TypeError({"DataFrame", "altair.Data"}), self)

FacetedSetterNoWrap(self, new) ==
    IF new.kind \in AcceptedKinds \cup {"str"}
    THEN Return([self EXCEPT !._data = new])
    ELSE Raise(TypeError({"DataFrame", "altair.Data"}), self)

FacetedChart_data_setter(self, new) ==
    IF new.kind = "str" THEN Return([self EXCEPT !._data = Data(new.value)])
    ELSE IF new.kind \in AcceptedKinds THEN Return([self EXCEPT !._data = new])
    ELSE Raise(TypeError({"DataFrame", "altair.Data"}), self)

data_setter(self, new) ==
    CASE self.cls = "Chart" -> Chart_data_setter(self, new)
      [] self.cls = "LayeredChart" -> LayeredChart_data_setter(self, new)
      [] self.cls = "FacetedChart" -> FacetedChart_data_setter(self, new)

----------------------------------------------------------------------------
(* Finalization of the data binding *)

DeclaredCalculateFields == {"as", "calculate"}

CalculateTransform_init(as_, kwargs) ==
    IF DOMAIN kwargs \subseteq DeclaredCalculateFields
    THEN Return([cls |-> "CalculateTransform",
                 fields |-> ("as" :> as_) @@ kwargs])
    ELSE Raise(UnknownFieldError(DOMAIN kwargs \ DeclaredCalculateFields),
               NoObj)

FilterValue(items) == [list |-> Len(items) # 1, items |-> items]

transform_data(self, name, value) ==
    SetField(self, "transform",
             (name :> value) @@
             (IF IsSet(self, "transform") THEN self.fields["transform"]
              ELSE <<>>))

PruneColumns(tbl, columns) == [tbl EXCEPT !.cols = columns.names]

SpliceCalculated(self, calculated_cols) ==
    LET made == [f \in DOMAIN calculated_cols |->
                    CalculateTransform_init(f, ("expr" :> calculated_cols[f]))]
        bad == {f \in DOMAIN made : made[f].err # NoErr}
    IN  IF DOMAIN calculated_cols = {} THEN Return(self)
        ELSE IF bad # {}
        THEN Raise(made[CHOOSE f \in bad : TRUE].err, self)
        ELSE Return(transform_data(self, "calculate",
                                   {made[f].obj : f \in DOMAIN made}))

SpliceFilters(self, filters) ==
    IF Len(filters) = 0 THEN self
    ELSE transform_data(self, "filter",
                        FilterValue([i \in 1..Len(filters) |-> repr(filters[i])]))

ThenFilters(calc, filters) ==
    IF calc.err # NoErr THEN calc
    ELSE Return(SpliceFilters(calc.obj, filters))

FinalizeDataOffByOne(self) ==
    IF IsTable(self._data) /\ self._data.nrows >= self.fields["max_rows"]
    THEN Raise(MaxRowsExceeded({DEFAULT_MAX_ROWS}), self)
    ELSE Return(self)

_finalize_data(self) ==
    IF IsTable(self._data) /\ self._data.nrows > self.fields["max_rows"]
    THEN Raise(MaxRowsExceeded({DEFAULT_MAX_ROWS}), self)
    ELSE IF IsExprFrame(self._data)
    THEN LET columns == self._data._cols
             calculated_cols == self._data._calculated_cols
             filters == self._data._filters
             inner == self._data._data
             pruned == IF columns.given /\ IsTable(inner)
                       THEN PruneColumns(inner, columns) ELSE inner
             bound == [self EXCEPT !._data = pruned]
         IN  ThenFilters(SpliceCalculated(bound, calculated_cols), filters)
    ELSE Return(self)

----------------------------------------------------------------------------
(* The finalization pass of each composite.  It runs on a value: an object *)
(* whose children are held in place (a layer is a sequence of Chart        *)
(* values, a spec is a Chart or LayeredChart value).                       *)

Chart_finalize(self) == _finalize_data(self)

RECURSIVE FinalizeEach(_)

Joined(first, rest) == [err |-> rest.err, obj |-> <<first.obj>> \o rest.obj]

ThenRest(first, rest) ==
    IF first.err # NoErr THEN Raise(first.err, <<first.obj>> \o rest)
    ELSE Joined(first, FinalizeEach(rest))

FinalizeEach(children) ==
    IF Len(children) = 0 THEN Return(<<>>)
    ELSE ThenRest(Chart_finalize(Head(children)), Tail(children))

WithChildren(own, name, kids) ==
    [err |-> kids.err, obj |-> SetField(own.obj, name, kids.obj)]

ThenLayers(own) ==
    IF own.err # NoErr \/ ~IsSet(own.obj, "layer") THEN own
    ELSE WithChildren(own, "layer", FinalizeEach(own.obj.fields["layer"]))

LayeredChart_finalize(self) == ThenLayers(_finalize_data(self))

Spec_finalize(child) ==
    IF child.cls = "LayeredChart" THEN LayeredChart_finalize(child)
    ELSE Chart_finalize(child)

ThenSpec(own) ==
    IF own.err # NoErr \/ ~IsSet(own.obj, "spec") THEN own
    ELSE WithChildren(own, "spec", Spec_finalize(own.obj.fields["spec"]))

FacetedChart_finalize(self) == ThenSpec(_finalize_data(self))

_finalize(self) ==
    CASE self.cls = "Chart" -> Chart_finalize(self)
      [] self.cls = "LayeredChart" -> LayeredChart_finalize(self)
      [] self.cls = "FacetedChart" -> FacetedChart_finalize(self)

----------------------------------------------------------------------------
(* Export: the working copy is finalized, then every field that is set and *)
(* not in the skip list is projected into the document; the data binding   *)
(* is written under "data" when the caller asks for the data.              *)

DataToDoc(d) ==
    IF d.kind = "Data" THEN d.fields
    ELSE ("values" :> [nrows |-> d.nrows, cols |-> d.cols])

WithData(obj, data, doc) ==
    IF data /\ obj._data.kind \in {"Data", "DataFrame"}
    THEN ("data" :> DataToDoc(obj._data)) @@ doc
    ELSE doc

Exported(obj) == DOMAIN obj.fields \ _skip_on_export

ChartToDoc(obj, data) ==
    WithData(obj, data, [k \in Exported(obj) |-> obj.fields[k]])

LayeredToDoc(obj, data) ==
    WithData(obj, data,
        [k \in Exported(obj) |->
            IF k = "layer"
            THEN [i \in 1..Len(obj.fields[k]) |->
                     ChartToDoc(obj.fields[k][i], data)]
            ELSE obj.fields[k]])

SpecToDoc(child, data) ==
    IF child.cls = "LayeredChart" THEN LayeredToDoc(child, data)
    ELSE ChartToDoc(child, data)

FacetedToDoc(obj, data) ==
    WithData(obj, data,
        [k \in Exported(obj) |->
            IF k = "spec" THEN SpecToDoc(obj.fields[k], data)
            ELSE obj.fields[k]])

ToDoc(obj, data) ==
    CASE obj.cls = "Chart" -> ChartToDoc(obj, data)
      [] obj.cls = "LayeredChart" -> LayeredToDoc(obj, data)
      [] obj.cls = "FacetedChart" -> FacetedToDoc(obj, data)

NoDoc == <<>>

Projected(done, data) ==
    [err |-> done.err, final |-> done.obj,
     doc |-> IF done.err = NoErr THEN ToDoc(done.obj, data) ELSE NoDoc]

JSONHasTraits_to_dict(self, data) == Projected(_finalize(self), data)

WithSchema(r) ==
    [err |-> r.err, final |-> r.final,
     doc |-> IF r.err # NoErr THEN NoDoc
             ELSE ("$schema" :> vegalite_schema_url) @@ r.doc]

ToDictNoSchema(self, data) == JSONHasTraits_to_dict(self, data)

TopLevelMixin_to_dict(self, data) ==
    WithSchema(JSONHasTraits_to_dict(self, data))

----------------------------------------------------------------------------
(* Import: the "$schema" key is checked and dropped from a copy of the     *)
(* document, then every key that names a declared field is rehydrated;     *)
(* keys that name no declared field are ignored.                           *)

DeclaredFields(cls) ==
    CASE cls = "Chart" -> {"mark", "transform", "max_rows"}
      [] cls = "LayeredChart" -> {"layer", "transform", "max_rows"}
      [] cls = "FacetedChart" -> {"facet", "spec", "transform", "max_rows"}

NewObject(cls) ==
    CASE cls = "Chart" -> NewChart
      [] cls = "LayeredChart" -> NewLayeredChart
      [] cls = "FacetedChart" -> NewFacetedChart

DataFromDoc(dct) ==
    IF "data" \in DOMAIN dct THEN DataOfDoc(dct["data"]) ELSE None

Known(cls, dct) == DOMAIN dct \cap DeclaredFields(cls)

Rehydrate(cls, dct, values) ==
    [cls |-> cls, _data |-> DataFromDoc(dct),
     fields |-> values @@ NewObject(cls).fields]

ChartFromDoc(dct) ==
    Rehydrate("Chart", dct, [k \in Known("Chart", dct) |-> dct[k]])

LayeredFromDoc(dct) ==
    Rehydrate("LayeredChart", dct,
        [k \in Known("LayeredChart", dct) |->
            IF k = "layer"
            THEN [i \in 1..Len(dct[k]) |-> ChartFromDoc(dct[k][i])]
            ELSE dct[k]])

SpecFromDoc(dct) ==
    IF "layer" \in DOMAIN dct THEN LayeredFromDoc(dct) ELSE ChartFromDoc(dct)

FacetedFromDoc(dct) ==
    Rehydrate("FacetedChart", dct,
        [k \in Known("FacetedChart", dct) |->
            IF k = "spec" THEN SpecFromDoc(dct[k]) ELSE dct[k]])

JSONHasTraits_from_dict(cls, dct) ==
    CASE cls = "Chart" -> ChartFromDoc(dct)
      [] cls = "LayeredChart" -> LayeredFromDoc(dct)
      [] cls = "FacetedChart" -> FacetedFromDoc(dct)

SchemaWarning(found) == <<"$schema does not match", found, vegalite_schema_url>>

FromDictWarnAlways(cls, dct) ==
    LET has == "$schema" \in DOMAIN dct
        rest == IF has THEN [k \in DOMAIN dct \ {"$schema"} |-> dct[k]]
                ELSE dct
    IN  [obj |-> JSONHasTraits_from_dict(cls, rest),
         warnings |-> IF has THEN {SchemaWarning(dct["$schema"])} ELSE {},
         dct |-> dct]

TopLevelMixin_from_dict(cls, dct) ==
    LET has == "$schema" \in DOMAIN dct
        rest == IF has THEN [k \in DOMAIN dct \ {"$schema"} |-> dct[k]]
                ELSE dct
    IN  [obj |-> JSONHasTraits_from_dict(cls, rest),
         warnings |-> IF has /\ dct["$schema"] # vegalite_schema_url
                      THEN {SchemaWarning(dct["$schema"])} ELSE {},
         dct |-> dct]

ChartFromDictFacetFirst(cls, spec) ==
    IF "facet" \in DOMAIN spec THEN TopLevelMixin_from_dict("FacetedChart", spec)
    ELSE IF "layer" \in DOMAIN spec
    THEN TopLevelMixin_from_dict("LayeredChart", spec)
    ELSE TopLevelMixin_from_dict(cls, spec)

Chart_from_dict(cls, spec) ==
    IF "layer" \in DOMAIN spec THEN TopLevelMixin_from_dict("LayeredChart", spec)
    ELSE IF "facet" \in DOMAIN spec
    THEN TopLevelMixin_from_dict("FacetedChart", spec)
    ELSE TopLevelMixin_from_dict(cls, spec)

from_dict(cls, dct) ==
    IF cls = "Chart" THEN Chart_from_dict(cls, dct)
    ELSE TopLevelMixin_from_dict(cls, dct)

----------------------------------------------------------------------------
(* Layering *)

IAddPrepend(self, layer) ==
    IF ~IsSet(self, "layer") THEN SetField(self, "layer", <<layer>>)
    ELSE SetField(self, "layer", <<layer>> \o self.fields["layer"])

LayeredChart_iadd(self, layer) ==
    IF ~IsSet(self, "layer") THEN SetField(self, "layer", <<layer>>)
    ELSE SetField(self, "layer", self.fields["layer"] \o <<layer>>)

LayeredChart_set_layers(self, layers) == SetField(self, "layer", layers)

ChartAddReversed(self, other, otherCls) ==
    IF otherCls = "Chart"
    THEN Return(LayeredChart_iadd(LayeredChart_iadd(NewLayeredChart, other),
                                  self))
    ELSE Raise(TypeError({"Charts", "LayeredChart", "Chart"}), NoObj)

Chart_add(self, other, otherCls) ==
    IF otherCls = "Chart"
    THEN Return(LayeredChart_iadd(LayeredChart_iadd(NewLayeredChart, self),
                                  other))
    ELSE Raise(TypeError({"Charts", "LayeredChart", "Chart"}), NoObj)

----------------------------------------------------------------------------
(* The heap holds composites by identity: a layer holds the identities of  *)
(* its children.  ValueOf reads an object with its children in place.      *)

Allocated(h, o) == h[o].cls # "none"

LayeredValue(h, o) ==
    IF IsSet(h[o], "layer")
    THEN SetField(h[o], "layer",
                  [i \in 1..Len(h[o].fields["layer"]) |->
                      h[h[o].fields["layer"][i]]])
    ELSE h[o]

SpecValue(h, r) == IF h[r].cls = "LayeredChart" THEN LayeredValue(h, r) ELSE h[r]

FacetedValue(h, o) ==
    IF IsSet(h[o], "spec")
    THEN SetField(h[o], "spec", SpecValue(h, h[o].fields["spec"]))
    ELSE h[o]

ValueOf(h, o) ==
    CASE h[o].cls = "Chart" -> h[o]
      [] h[o].cls = "LayeredChart" -> LayeredValue(h, o)
      [] h[o].cls = "FacetedChart" -> FacetedValue(h, o)

----------------------------------------------------------------------------
(* State: the heap of composites, the outcome of the last call, and for    *)
(* each LayeredChart the children appended to it since it was made (pure   *)
(* while nothing but in-place appends has touched its layer).              *)

NoOut ==
    [op |-> "none", target |-> "none", arg |-> None, err |-> NoErr,
     doc |-> NoDoc, final |-> NoObj, obj |-> NoObj, warnings |-> {},
     dct |-> NoDoc, writes |-> <<>>]

NoAppends == [pure |-> TRUE, seq |-> <<>>]

Init ==
    /\ heap = [o \in Ids |->
                 IF o \in ChartIds THEN NewChart
                 ELSE IF o \in FacetedIds THEN NewFacetedChart
                 ELSE NoObj]
    /\ out = NoOut
    /\ appends = [l \in LayeredIds |-> NoAppends]

Unbound(obj) ==
    IF obj.cls = "none" THEN TRUE
    ELSE obj._data = None /\ obj.fields["max_rows"] = DEFAULT_MAX_ROWS

(* At most one composite at a time holds a binding or a row limit of its own *)
OthersUnbound(o) == \A p \in Ids \ {o} : Unbound(heap[p])

LayerLen(obj) == IF IsSet(obj, "layer") THEN Len(obj.fields["layer"]) ELSE 0

SeqsUpTo(S, n) == UNION {[1..k -> S] : k \in 0..n}

Assigned(o, new, r) ==
    /\ heap' = [heap EXCEPT ![o] = r.obj]
    /\ out' = [NoOut EXCEPT !.op = "set_data", !.target = o, !.arg = new,
                            !.err = r.err]

SetData(o, new) ==
    /\ Allocated(heap, o)
    /\ OthersUnbound(o)
    /\ Assigned(o, new, data_setter(heap[o], new))
    /\ UNCHANGED appends

SetMaxRows(o, n) ==
    /\ Allocated(heap, o)
    /\ OthersUnbound(o)
    /\ heap' = [heap EXCEPT ![o] = SetField(heap[o], "max_rows", n)]
    /\ out' = [NoOut EXCEPT !.op = "set_max_rows", !.target = o]
    /\ UNCHANGED appends

SetMark(c, m) ==
    /\ heap' = [heap EXCEPT ![c] = SetField(heap[c], "mark", m)]
    /\ out' = [NoOut EXCEPT !.op = "set_mark", !.target = c]
    /\ UNCHANGED appends

ToDictOut(o, data, r) ==
    [NoOut EXCEPT !.op = "to_dict", !.target = o, !.arg = data,
                  !.err = r.err, !.doc = r.doc, !.final = r.final]

(* What the caller's object holds after an export whose working copy ended *)
(* as final: the pass ran on the copy, the object is as it was.            *)
ExportInPlace(self, final) ==
    [self EXCEPT !._data = final._data,
                 !.fields = IF IsSet(final, "transform")
                            THEN ("transform" :> final.fields["transform"]) @@ @
                            ELSE @]

AfterExport(self, final) == self

Exports(o, data, r) ==
    /\ out' = ToDictOut(o, data, r)
    /\ heap' = [heap EXCEPT ![o] = AfterExport(heap[o], r.final)]

ToDict(o, data) ==
    /\ Allocated(heap, o)
    /\ Exports(o, data, TopLevelMixin_to_dict(ValueOf(heap, o), data))
    /\ UNCHANGED appends

Imported(o, r, back) ==
    [NoOut EXCEPT !.op = "round_trip", !.target = o, !.err = r.err,
                  !.doc = r.doc, !.final = r.final, !.obj = back.obj,
                  !.warnings = back.warnings]

RoundTripOut(o, r) ==
    IF r.err # NoErr
    THEN [NoOut EXCEPT !.op = "round_trip", !.target = o, !.err = r.err]
    ELSE Imported(o, r, from_dict(heap[o].cls, r.doc))

RoundTrip(o) ==
    /\ Allocated(heap, o)
    /\ out' = RoundTripOut(o, TopLevelMixin_to_dict(ValueOf(heap, o), TRUE))
    /\ UNCHANGED <<heap, appends>>

NewLayered(l) ==
    /\ ~Allocated(heap, l)
    /\ heap' = [heap EXCEPT ![l] = NewLayeredChart]
    /\ appends' = [appends EXCEPT ![l] = NoAppends]
    /\ out' = [NoOut EXCEPT !.op = "new_layered", !.target = l]

Added(a, b, r) ==
    IF r.err # NoErr
    THEN /\ out' = [NoOut EXCEPT !.op = "add", !.arg = <<a, b>>, !.err = r.err]
         /\ UNCHANGED <<heap, appends>>
    ELSE \E l \in LayeredIds :
            /\ ~Allocated(heap, l)
            /\ heap' = [heap EXCEPT ![l] = r.obj]
            /\ appends' = [appends EXCEPT
                              ![l] = [pure |-> TRUE, seq |-> <<a, b>>]]
            /\ out' = [NoOut EXCEPT !.op = "add", !.target = l,
                                    !.arg = <<a, b>>]

Add(a, b) ==
    /\ Allocated(heap, b)
    /\ Added(a, b, Chart_add(a, b, heap[b].cls))

IAdd(l, c) ==
    /\ Allocated(heap, l)
    /\ LayerLen(heap[l]) < MaxLayers
    /\ heap' = [heap EXCEPT ![l] = LayeredChart_iadd(heap[l], c)]
    /\ appends' = [appends EXCEPT ![l].seq = Append(@, c)]
    /\ out' = [NoOut EXCEPT !.op = "iadd", !.target = l, !.arg = c]

SetLayers(l, layers) ==
    /\ Allocated(heap, l)
    /\ heap' = [heap EXCEPT ![l] = LayeredChart_set_layers(heap[l], layers)]
    /\ appends' = [appends EXCEPT ![l] = [pure |-> FALSE, seq |-> layers]]
    /\ out' = [NoOut EXCEPT !.op = "set_layers", !.target = l, !.arg = layers]

SetSpec(f, r) ==
    /\ Allocated(heap, r)
    /\ heap' = [heap EXCEPT ![f] = SetField(heap[f], "spec", r)]
    /\ out' = [NoOut EXCEPT !.op = "set_spec", !.target = f, !.arg = r]
    /\ UNCHANGED appends

set_facet(self, field) == SetField(self, "facet", ("row" :> field))

SetFacet(f, field) ==
    /\ heap' = [heap EXCEPT ![f] = set_facet(heap[f], field)]
    /\ out' = [NoOut EXCEPT !.op = "set_facet", !.target = f]
    /\ UNCHANGED appends

----------------------------------------------------------------------------
(* Documents handed to from_dict *)

OtherSchemaUrl == "https://vega.github.io/schema/vega-lite/v1.json"

ChartDocs ==
    {<<>>} \cup {("mark" :> m) : m \in Marks}
    \cup {("mark" :> m @@ "data" :> ("url" :> u)) : m \in Marks, u \in Urls}
    \cup {("mark" :> m @@ "usermeta" :> "x") : m \in Marks}

LayerDocs ==
    {("layer" :> ls) : ls \in SeqsUpTo({("mark" :> m) : m \in Marks}, MaxLayers)}
    \cup {("layer" :> <<("mark" :> "bar")>> @@ "facet" :> ("row" :> "a"))}

FacetDocs ==
    {("facet" :> ("row" :> c) @@ "spec" :> d) :
        c \in AllCols,
        d \in {("mark" :> "point"), ("layer" :> <<("mark" :> "bar")>>)}}
    \cup {("facet" :> ("row" :> "a"))}

BareDocs == ChartDocs \cup LayerDocs \cup FacetDocs

Docs ==
    BareDocs
    \cup {("$schema" :> u) @@ d :
            u \in {vegalite_schema_url, OtherSchemaUrl}, d \in BareDocs}

Classes == {"Chart", "LayeredChart", "FacetedChart"}

FromDictOut(cls, dct, r) ==
    [NoOut EXCEPT !.op = "from_dict", !.target = cls, !.arg = dct,
                  !.obj = r.obj, !.warnings = r.warnings, !.dct = r.dct]

FromDict(cls, dct) ==
    /\ out' = FromDictOut(cls, dct, from_dict(cls, dct))
    /\ UNCHANGED <<heap, appends>>

----------------------------------------------------------------------------
(* savechart: the file type is given or taken from the name of the output, *)
(* and the chart is handed to the external renderer, written as JSON or    *)
(* written as HTML.  An output is a file name (base and extension) or an   *)
(* open file object.                                                       *)

SUPPORTED_FILETYPES == {"png", "svg"}

FileName(base, ext) == [kind |-> "name", base |-> base, ext |-> ext]

FileObject == [kind |-> "file", base |-> "", ext |-> <<>>]

(* os.path.splitext: the extension is empty or a dot and what follows it *)
splitext(outfile) == <<outfile.base, outfile.ext>>

(* ext[1:] *)
DropDot(ext) == IF Len(ext) = 0 THEN "" ELSE ext[2]

NoType == [given |-> FALSE, value |-> ""]

FileType(t) == [given |-> TRUE, value |-> t]

ValueError(named) == [type |-> "ValueError", numbers |-> {}, names |-> named]

Saved(err, writes) == [err |-> err, writes |-> writes]

Written(writer, outfile) == [writer |-> writer, dest |-> outfile]

(* outfile.write(text), or open(outfile, 'w') and then f.write(text); the  *)
(* named file is opened before the text is made.                           *)
WriteText(outfile, writer, made) ==
    IF made.err = NoErr THEN Saved(NoErr, <<Written(writer, outfile)>>)
    ELSE IF outfile.kind = "file" THEN Saved(made.err, <<>>)
    ELSE Saved(made.err, <<Written("open", outfile)>>)

Route(self, outfile, filetype) ==
    IF filetype \in SUPPORTED_FILETYPES
    THEN Saved(NoErr, <<Written("node.savechart", outfile)>>)
    ELSE IF filetype = "json"
    THEN WriteText(outfile, "to_json", TopLevelMixin_to_dict(self, TRUE))
    ELSE IF filetype = "html"
    THEN WriteText(outfile, "to_html", TopLevelMixin_to_dict(self, TRUE))
    ELSE Saved(ValueError({filetype} \cup SUPPORTED_FILETYPES
                                     \cup {"json", "html"}), <<>>)

SavechartJsonFallback(self, outfile, filetype, raised) ==
    IF ~filetype.given /\ outfile.kind = "file"
    THEN Saved(ValueError({}), <<>>)
    ELSE LET ft == IF filetype.given THEN filetype.value
                   ELSE DropDot(splitext(outfile)[2])
         IN  IF ft \in SUPPORTED_FILETYPES \cup {"json", "html"}
             THEN Route(self, outfile, ft)
             ELSE Route(self, outfile, "json")

(* raised: what os.path.splitext raises when handed a file object *)
savechart(self, outfile, filetype, raised) ==
    IF filetype.given THEN Route(self, outfile, filetype.value)
    ELSE IF outfile.kind = "file"
    THEN IF raised = "AttributeError" THEN Saved(ValueError({}), <<>>)
         ELSE Saved(TypeError({}), <<>>)
    ELSE Route(self, outfile, DropDot(splitext(outfile)[2]))

Extensions == {<<>>} \cup {<<".", t>> : t \in {"png", "svg", "json", "html", "pdf"}}

Outfiles == {FileName("chart", e) : e \in Extensions} \cup {FileObject}

FileTypes ==
    {NoType} \cup {FileType(t) : t \in {"png", "svg", "json", "html", "pdf", ""}}

SavedOut(o, outfile, filetype, r) ==
    [NoOut EXCEPT !.op = "savechart", !.target = o,
                  !.arg = <<outfile, filetype>>, !.err = r.err,
                  !.writes = r.writes]

Savechart(o, outfile, filetype, raised) ==
    /\ Allocated(heap, o)
    /\ out' = SavedOut(o, outfile, filetype,
                       savechart(ValueOf(heap, o), outfile, filetype, raised))
    /\ UNCHANGED <<heap, appends>>

NextSave ==
    \/ \E o \in Ids, outfile \in Outfiles, filetype \in FileTypes,
          raised \in {"AttributeError", "TypeError"} :
            Savechart(o, outfile, filetype, raised)
    \/ \E c \in ChartIds, m \in Marks : SetMark(c, m)
    \/ NewLayered("l1")

SpecSave == Init /\ [][NextSave]_vars

----------------------------------------------------------------------------
(* Mark mutators: each sets the mark and hands its keyword arguments to    *)
(* configure_mark, which merges them into config.mark.                     *)

Merged(old, kwargs) == kwargs @@ old

SubTrait(obj, name) == IF IsSet(obj, name) THEN obj.fields[name] ELSE <<>>

MarkConfig(obj) ==
    IF "mark" \in DOMAIN SubTrait(obj, "config")
    THEN SubTrait(obj, "config")["mark"] ELSE <<>>

(* update_subtraits(obj, ('config', 'mark'), **kwargs) *)
update_subtraits(obj, kwargs) ==
    IF DOMAIN kwargs = {} THEN obj
    ELSE SetField(obj, "config",
                  ("mark" :> Merged(MarkConfig(obj), kwargs))
                      @@ SubTrait(obj, "config"))

configure_mark(self, kwargs) == update_subtraits(self, kwargs)

MarkBarAsArea(self, kwargs) == configure_mark(SetField(self, "mark", "area"), kwargs)

mark_area(self, kwargs) == configure_mark(SetField(self, "mark", "area"), kwargs)

mark_bar(self, kwargs) == configure_mark(SetField(self, "mark", "bar"), kwargs)

mark_errorBar(self, kwargs) == configure_mark(SetField(self, "mark", "errorBar"), kwargs)

mark_line(self, kwargs) == configure_mark(SetField(self, "mark", "line"), kwargs)

mark_point(self, kwargs) == configure_mark(SetField(self, "mark", "point"), kwargs)

mark_rule(self, kwargs) == configure_mark(SetField(self, "mark", "rule"), kwargs)

mark_text(self, kwargs) == configure_mark(SetField(self, "mark", "text"), kwargs)

mark_tick(self, kwargs) == configure_mark(SetField(self, "mark", "tick"), kwargs)

mark_circle(self, kwargs) == configure_mark(SetField(self, "mark", "circle"), kwargs)

mark_square(self, kwargs) == configure_mark(SetField(self, "mark", "square"), kwargs)

MarkKinds ==
    {"area", "bar", "errorBar", "line", "point", "rule", "text", "tick", "circle", "square"}

mark_(self, kind, kwargs) ==
    CASE kind = "area" -> mark_area(self, kwargs)
      [] kind = "bar" -> mark_bar(self, kwargs)
      [] kind = "errorBar" -> mark_errorBar(self, kwargs)
      [] kind = "line" -> mark_line(self, kwargs)
      [] kind = "point" -> mark_point(self, kwargs)
      [] kind = "rule" -> mark_rule(self, kwargs)
      [] kind = "text" -> mark_text(self, kwargs)
      [] kind = "tick" -> mark_tick(self, kwargs)
      [] kind = "circle" -> mark_circle(self, kwargs)
      [] kind = "square" -> mark_square(self, kwargs)

Colors == {"red", "blue"}

Opacities == {0, 1}

MarkKwargs ==
    {<<>>} \cup {("color" :> c) : c \in Colors}
    \cup {("opacity" :> a) : a \in Opacities}
    \cup {("color" :> c @@ "opacity" :> a) : c \in Colors, a \in Opacities}

Mark(c, kind, kwargs) ==
    /\ heap' = [heap EXCEPT ![c] = mark_(heap[c], kind, kwargs)]
    /\ out' = [NoOut EXCEPT !.op = "mark", !.target = c,
                            !.arg = [kind |-> kind, kwargs |-> kwargs]]
    /\ UNCHANGED appends

ConfigureMark(c, kwargs) ==
    /\ heap' = [heap EXCEPT ![c] = configure_mark(heap[c], kwargs)]
    /\ out' = [NoOut EXCEPT !.op = "configure_mark", !.target = c,
                            !.arg = [kind |-> "none", kwargs |-> kwargs]]
    /\ UNCHANGED appends

NextMark ==
    \/ \E kind \in MarkKinds, kwargs \in MarkKwargs : Mark("c1", kind, kwargs)
    \/ \E kwargs \in MarkKwargs : ConfigureMark("c1", kwargs)

SpecMark == Init /\ [][NextMark]_vars

----------------------------------------------------------------------------
(* Transforms with expression-valued fields.  A value of such a field is   *)
(* text, a live expression or a filter object; a filter is one value or a  *)
(* list of values.                                                         *)

MaxItems == 2

Texts == {"datum.a > 1", "datum.b < 2"}

FilterItems ==
    {Str(t) : t \in Texts} \cup {Expression(t) : t \in Texts}
    \cup {Other("EqualFilter"), Other("RangeFilter")}

One(f) == [list |-> FALSE, items |-> <<f>>]

ListOf(fs) == [list |-> TRUE, items |-> fs]

Undefined == [kind |-> "undefined"]

NewCalculateTransform(as_, calculate) ==
    [cls |-> "CalculateTransform",
     fields |-> ("as" :> as_ @@ "calculate" :> calculate)]

NewFilterTransform(filter) ==
    [cls |-> "FilterTransform", fields |-> ("filter" :> filter)]

(* repr(f) if isinstance(f, expr.Expression) else f *)
convert(f) == IF f.kind = "Expression" THEN Str(repr(f)) ELSE f

(* the _finalize the transform classes inherit: nothing to normalize *)
JSONHasTraits_finalize(self) == Return(self)

CalculateFinalizeRerenders(self) ==
    JSONHasTraits_finalize(
        IF self.fields["calculate"].kind = "Expression"
        THEN SetField(self, "calculate", Str(repr(self.fields["calculate"])))
        ELSE IF self.fields["calculate"].kind = "str"
        THEN SetField(self, "calculate",
                      Str("'" \o self.fields["calculate"].value \o "'"))
        ELSE self)

CalculateTransform_finalize(self) ==
    JSONHasTraits_finalize(
        IF self.fields["calculate"].kind = "Expression"
        THEN SetField(self, "calculate", Str(repr(self.fields["calculate"])))
        ELSE self)

(* self.filter = convert(self.filter); a list is converted item by item.   *)
ConvertedFilter(filter) ==
    IF filter.list
    THEN ListOf([i \in 1..Len(filter.items) |-> convert(filter.items[i])])
    ELSE One(convert(filter.items[1]))

(* super(Transform, self): self is a FilterTransform, which is no subclass *)
(* of Transform, so the call raises TypeError after the filter is stored.  *)
FilterTransform_finalize(self) ==
    Raise(TypeError({"super", "Transform"}),
          SetField(self, "filter", ConvertedFilter(self.fields["filter"])))

Transform_finalize(self) ==
    IF self.cls = "CalculateTransform" THEN CalculateTransform_finalize(self)
    ELSE FilterTransform_finalize(self)

Transforms ==
    {NewCalculateTransform(a, c) :
        a \in AllCols,
        c \in {Undefined} \cup {Str(t) : t \in Texts}
               \cup {Expression(t) : t \in Texts}}
    \cup {NewFilterTransform(One(f)) : f \in FilterItems}
    \cup {NewFilterTransform(ListOf(fs)) : fs \in SeqsUpTo(FilterItems, MaxItems)}

Finalized(op, t, first, r) ==
    [NoOut EXCEPT !.op = op, !.arg = t, !.final = first, !.obj = r.obj,
                  !.err = r.err]

FinalizeTransform(t) ==
    /\ out' = Finalized("finalize", t, t, Transform_finalize(t))
    /\ UNCHANGED <<heap, appends>>

Composites == {"Chart", "LayeredChart", "FacetedChart"}

Pass(x) == IF x.cls \in Composites THEN _finalize(x) ELSE Transform_finalize(x)

(* the pass is run again on what the last pass left *)
FinalizeAgain ==
    /\ out.op \in {"finalize", "finalize_composite"}
    /\ out' = Finalized("finalize_again", out.arg, out.obj, Pass(out.obj))
    /\ UNCHANGED <<heap, appends>>

NextTransform ==
    \/ \E t \in Transforms : FinalizeTransform(t)
    \/ FinalizeAgain

SpecTransform == Init /\ [][NextTransform]_vars

(* The pass on a composite with its children in place *)
FinalizeComposite(o) ==
    /\ Allocated(heap, o)
    /\ out' = Finalized("finalize_composite", ValueOf(heap, o),
                        ValueOf(heap, o), _finalize(ValueOf(heap, o)))
    /\ UNCHANGED <<heap, appends>>

DistinctLayers == {<<"c1">>, <<"c1", "c2">>, <<"c2", "c1">>}

(* Transforms are finalized before any composite is bound *)
NoneBound == \A p \in Ids : Unbound(heap[p])

NextFinal ==
    \/ \E t \in Transforms : NoneBound /\ FinalizeTransform(t)
    \/ FinalizeAgain
    \/ \E o \in Bindable, new \in DataInputs : SetData(o, new)
    \/ \E o \in Bindable, n \in Limits : SetMaxRows(o, n)
    \/ NewLayered("l1")
    \/ \E ls \in DistinctLayers : SetLayers("l1", ls)
    \/ \E f \in FacetedIds, r \in {"c1", "l1"} : SetSpec(f, r)
    \/ \E o \in Ids : FinalizeComposite(o)

SpecFinal == Init /\ [][NextFinal]_vars

----------------------------------------------------------------------------
(* Binding and export: one composite at a time is bound and exported;      *)
(* l1 and f1 are given children.                                           *)

Next ==
    \/ \E o \in Bindable, new \in DataInputs : SetData(o, new)
    \/ \E o \in Bindable, n \in Limits : SetMaxRows(o, n)
    \/ \E o \in Ids, data \in BOOLEAN : ToDict(o, data)
    \/ \E o \in Ids : RoundTrip(o)
    \/ NewLayered("l1")
    \/ IAdd("l1", "c1")
    \/ \E f \in FacetedIds, r \in {"c1", "l1"} : SetSpec(f, r)
    \/ \E f \in FacetedIds : SetFacet(f, "a")

Spec == Init /\ [][Next]_vars

(* Layering: composites are combined, appended to, marked and exported     *)

NextLayer ==
    \/ \E l \in LayeredIds : NewLayered(l)
    \/ \E a \in ChartIds, b \in ChartIds \cup LayeredIds : Add(a, b)
    \/ \E l \in LayeredIds, c \in ChartIds : IAdd(l, c)
    \/ \E l \in LayeredIds, ls \in SeqsUpTo(ChartIds, MaxLayers) : SetLayers(l, ls)
    \/ \E c \in ChartIds, m \in Marks : SetMark(c, m)
    \/ \E o \in Ids : ToDict(o, TRUE)

SpecLayer == Init /\ [][NextLayer]_vars

(* Import: documents are handed to from_dict of each class                 *)

NextImport == \E cls \in Classes, dct \in Docs : FromDict(cls, dct)

SpecImport == Init /\ [][NextImport]_vars

----------------------------------------------------------------------------
(* Claims *)

Target == heap[out.target]

Exporting(cls) == out.op = "to_dict" /\ Target.cls = cls

(* C1: a Chart bound to a concrete table fails to_dict() with the          *)
(* row-limit error exactly when the table has more rows than max_rows: it  *)
(* fails at max_rows + 1 rows and succeeds at max_rows rows.               *)
C1_RowLimitIff ==
    (Exporting("Chart") /\ IsTable(Target._data)) =>
        /\ (out.err.type = "MaxRowsExceeded")
              = (Target._data.nrows > Target.fields["max_rows"])
        /\ (out.err = NoErr)
              = (Target._data.nrows <= Target.fields["max_rows"])
        /\ (out.err = NoErr) = ("$schema" \in DOMAIN out.doc)

C1_Witness ==
    /\ Exporting("Chart") /\ IsTable(Target._data)
    /\ Target.fields["max_rows"] # DEFAULT_MAX_ROWS
    /\ Target._data.nrows = Target.fields["max_rows"] + 1
    /\ out.err.type = "MaxRowsExceeded"

(* C2: when the row-limit guard fires, the error reports the limit         *)
(* configured on the composite (its max_rows) and the actual row count of  *)
(* the bound table.                                                        *)
C2_ReportsLimitAndActual ==
    (/\ out.op = "to_dict"
     /\ IsTable(Target._data)
     /\ out.err.type = "MaxRowsExceeded") =>
        /\ Target.fields["max_rows"] \in out.err.numbers
        /\ Target._data.nrows \in out.err.numbers

(* C3: the row-count guard applies to a deferred expression-bound frame:   *)
(* when its underlying concrete table has more than max_rows rows, the     *)
(* export fails with the row-limit error.                                  *)
C3_GuardOnDeferredFrame ==
    (/\ out.op = "to_dict"
     /\ IsExprFrame(Target._data)
     /\ Target._data._data.nrows > Target.fields["max_rows"]) =>
        out.err.type = "MaxRowsExceeded"

Schema == ("$schema" :> vegalite_schema_url)

(* C4: A + B yields a LayeredChart whose layer is exactly <<A, B>>; its    *)
(* exported document holds a "layer" array of length 2 whose entries are   *)
(* the documents of A and of B, A's first.                                 *)
C4_AddLayersInOrder ==
    /\ (out.op = "add" /\ out.err = NoErr) =>
          /\ Target.cls = "LayeredChart"
          /\ IsSet(Target, "layer")
          /\ Target.fields["layer"] = out.arg
          /\ Len(Target.fields["layer"]) = 2
    /\ (/\ Exporting("LayeredChart")
        /\ out.err = NoErr
        /\ appends[out.target].pure
        /\ Len(appends[out.target].seq) = 2) =>
          /\ "layer" \in DOMAIN out.doc
          /\ Len(out.doc["layer"]) = 2
          /\ \A i \in 1..2 :
                Schema @@ out.doc["layer"][i] =
                    TopLevelMixin_to_dict(heap[appends[out.target].seq[i]],
                                          TRUE).doc

C4_Witness ==
    /\ Exporting("LayeredChart")
    /\ out.err = NoErr
    /\ appends[out.target] = [pure |-> TRUE, seq |-> <<"c1", "c2">>]
    /\ heap["c1"].fields["mark"] = "point"
    /\ heap["c2"].fields["mark"] = "bar"
    /\ Len(out.doc["layer"]) = 2
    /\ out.doc["layer"][1] = ("mark" :> "point")

(* C5: a LayeredChart whose layer started unset and has only been appended *)
(* to in place holds exactly the appended children, in append order; with  *)
(* nothing appended its layer is still unset.                              *)
C5_AppendsInOrder ==
    \A l \in LayeredIds :
        (Allocated(heap, l) /\ appends[l].pure) =>
            IF Len(appends[l].seq) = 0 THEN ~IsSet(heap[l], "layer")
            ELSE /\ IsSet(heap[l], "layer")
                 /\ heap[l].fields["layer"] = appends[l].seq

C5_Witness ==
    /\ out.op = "iadd"
    /\ appends[out.target].pure
    /\ Len(appends[out.target].seq) = MaxLayers
    /\ appends[out.target].seq[1] # appends[out.target].seq[MaxLayers]
    /\ Target.fields["layer"] = appends[out.target].seq

NamedKinds == {"DataFrame", "altair.Data"}

C8_SchemaKey ==
    (out.op = "to_dict" /\ out.err = NoErr) =>
        /\ "$schema" \in DOMAIN out.doc
        /\ out.doc["$schema"] = vegalite_schema_url

C8_Witness ==
    /\ Exporting("FacetedChart")
    /\ out.err = NoErr
    /\ IsSet(Target, "spec")
    /\ IsTable(Target._data)
    /\ DOMAIN out.doc = {"$schema", "data", "spec"}

Without(dct, key) == [k \in DOMAIN dct \ {key} |-> dct[k]]

(* C9: from_dict on a document whose "$schema" differs from the schema URL *)
(* warns and returns what from_dict returns for the document without the   *)
(* key; a matching "$schema" gives no warning; the key never becomes a     *)
(* field and the caller's document is left as it was.                      *)
C9_SchemaMismatchWarns ==
    (out.op = "from_dict") =>
        /\ out.obj = from_dict(out.target, Without(out.arg, "$schema")).obj
        /\ (out.warnings # {})
              = (/\ "$schema" \in DOMAIN out.arg
                 /\ out.arg["$schema"] # vegalite_schema_url)
        /\ "$schema" \notin DOMAIN out.obj.fields
        /\ out.dct = out.arg

C9_Witness ==
    /\ out.op = "from_dict"
    /\ "$schema" \in DOMAIN out.arg
    /\ out.arg["$schema"] = OtherSchemaUrl
    /\ out.warnings = {SchemaWarning(OtherSchemaUrl)}
    /\ out.obj.cls = "FacetedChart"
    /\ IsSet(out.obj, "spec")

PlainObj(v) == v._data = None /\ v.fields["max_rows"] = DEFAULT_MAX_ROWS

PlainLayered(v) ==
    /\ PlainObj(v)
    /\ IsSet(v, "layer") =>
          \A i \in 1..Len(v.fields["layer"]) : PlainObj(v.fields["layer"][i])

PlainSpec(v) ==
    IF v.cls = "LayeredChart" THEN IsSet(v, "layer") /\ PlainLayered(v)
    ELSE PlainObj(v)

PlainValue(v) ==
    CASE v.cls = "Chart" -> PlainObj(v)
      [] v.cls = "LayeredChart" -> PlainLayered(v)
      [] v.cls = "FacetedChart" ->
            /\ PlainObj(v)
            /\ IsSet(v, "spec") => PlainSpec(v.fields["spec"])

RoundTripped == out.op = "round_trip" /\ out.err = NoErr

(* No composite of the heap is bound to a deferred frame *)
NoLiveExpressions == \A o \in Ids : ~IsExprFrame(heap[o]._data)

Resolved == IF out.arg[2].given THEN out.arg[2].value ELSE DropDot(out.arg[1].ext)

HasType == out.op = "savechart" /\ (out.arg[2].given \/ out.arg[1].kind = "name")

AllTypes == SUPPORTED_FILETYPES \cup {"json", "html"}

WriterOf(t) ==
    IF t \in SUPPORTED_FILETYPES THEN "node.savechart"
    ELSE IF t = "json" THEN "to_json" ELSE "to_html"

(* C12 as stated: a file type that is none of the supported kinds raises   *)
(* UnsupportedFormatError reporting the attempted kind and the supported   *)
(* set, and nothing is written.                                            *)
C12_UnsupportedFormatError ==
    (HasType /\ Resolved \notin AllTypes) =>
        /\ out.err.type = "UnsupportedFormatError"
        /\ out.err.names = {Resolved} \cup AllTypes
        /\ out.writes = <<>>

(* C12: a file type that is none of the supported kinds raises ValueError  *)
(* reporting the attempted kind and the supported set, and nothing is      *)
(* written; a supported kind is handed to exactly one writer (the external *)
(* renderer, to_json or to_html) with the given output; an omitted file    *)
(* type is the extension of the output's file name.                        *)
C12_SavechartRoutes ==
    HasType =>
        IF Resolved \in AllTypes
        THEN /\ out.err = NoErr
             /\ out.writes = <<Written(WriterOf(Resolved), out.arg[1])>>
        ELSE /\ out.err.type = "ValueError"
             /\ out.err.names = {Resolved} \cup AllTypes
             /\ out.writes = <<>>

C12_Witness ==
    /\ out.op = "savechart"
    /\ ~out.arg[2].given
    /\ out.arg[1] = FileName("chart", <<".", "pdf">>)
    /\ out.err.type = "ValueError"
    /\ "pdf" \in out.err.names

(* C13: a call of a mark mutator leaves the chart's mark equal to the      *)
(* mutator's kind; every key the call gives holds the given value in       *)
(* config.mark; every key config.mark held before and the call does not    *)
(* name is retained with its value; no other key appears.                  *)
C13_MarkMutators ==
    [][\A c \in ChartIds :
         (out'.op = "mark" /\ out'.target = c) =>
            /\ heap'[c].fields["mark"] = out'.arg.kind
            /\ DOMAIN MarkConfig(heap'[c])
                  = DOMAIN MarkConfig(heap[c]) \cup DOMAIN out'.arg.kwargs
            /\ \A k \in DOMAIN out'.arg.kwargs :
                  MarkConfig(heap'[c])[k] = out'.arg.kwargs[k]
            /\ \A k \in DOMAIN MarkConfig(heap[c]) \ DOMAIN out'.arg.kwargs :
                  MarkConfig(heap'[c])[k] = MarkConfig(heap[c])[k]]_vars

C13_Witness ==
    /\ out.op = "mark"
    /\ out.arg.kind = "bar"
    /\ out.arg.kwargs = ("color" :> "blue")
    /\ Target.fields["mark"] = "bar"
    /\ MarkConfig(Target) = ("color" :> "blue" @@ "opacity" :> 1)

LayersOf(l) ==
    IF Allocated(heap, l) /\ IsSet(heap[l], "layer")
    THEN {heap[l].fields["layer"][i] : i \in 1..Len(heap[l].fields["layer"])}
    ELSE {}

(* C14: no Chart object is an element of the layer sequences of two        *)
(* different LayeredCharts at the same time.                               *)
C14_ExclusiveChildren ==
    \A l \in LayeredIds, k \in LayeredIds :
        l # k => LayersOf(l) \cap LayersOf(k) = {}

Normalized(v) == IF v.kind = "Expression" THEN Str(v.text) ELSE v

(* C15: finalizing a CalculateTransform or a FilterTransform completes     *)
(* without error; a live expression in calculate, in filter or in a list   *)
(* filter is replaced by its text in the same position, and text and       *)
(* filter objects are left as they were.                                   *)
C15_ExpressionsToText ==
    (out.op = "finalize") =>
        /\ out.err = NoErr
        /\ out.obj.cls = out.arg.cls
        /\ IF out.arg.cls = "CalculateTransform"
           THEN /\ out.obj.fields["as"] = out.arg.fields["as"]
                /\ out.obj.fields["calculate"]
                      = Normalized(out.arg.fields["calculate"])
           ELSE /\ out.obj.fields["filter"].list = out.arg.fields["filter"].list
                /\ Len(out.obj.fields["filter"].items)
                      = Len(out.arg.fields["filter"].items)
                /\ \A i \in 1..Len(out.arg.fields["filter"].items) :
                      out.obj.fields["filter"].items[i]
                          = Normalized(out.arg.fields["filter"].items[i])

Pipeline(obj) == IF IsSet(obj, "transform") THEN obj.fields["transform"] ELSE <<>>

Frame == Target._data

(* C16: exporting a composite bound to a deferred frame completes; the     *)
(* working copy is bound to the frame's table, pruned to the frame's       *)
(* columns; its transform holds one calculate directive per calculated     *)
(* column, carrying the column's name and expression, and the frame's      *)
(* filters as text, one filter as a single value and several as a list in  *)
(* their order; with no calculated column and no filter the transform is   *)
(* as it was.                                                              *)
C16_DeferredFrameSpliced ==
    (out.op = "to_dict" /\ IsExprFrame(Frame)) =>
        /\ out.err = NoErr
        /\ out.final._data =
              IF Frame._cols.given
              THEN [Frame._data EXCEPT !.cols = Frame._cols.names]
              ELSE Frame._data
        /\ IF DOMAIN Frame._calculated_cols = {}
           THEN "calculate" \notin DOMAIN Pipeline(out.final)
           ELSE /\ "calculate" \in DOMAIN Pipeline(out.final)
                /\ Cardinality(Pipeline(out.final)["calculate"])
                      = Cardinality(DOMAIN Frame._calculated_cols)
                /\ \A f \in DOMAIN Frame._calculated_cols :
                      \E d \in Pipeline(out.final)["calculate"] :
                          /\ d.fields["as"] = f
                          /\ "calculate" \in DOMAIN d.fields
                          /\ d.fields["calculate"] = Frame._calculated_cols[f]
        /\ IF Len(Frame._filters) = 0
           THEN "filter" \notin DOMAIN Pipeline(out.final)
           ELSE /\ "filter" \in DOMAIN Pipeline(out.final)
                /\ Pipeline(out.final)["filter"].list = (Len(Frame._filters) > 1)
                /\ Pipeline(out.final)["filter"].items
                      = [i \in 1..Len(Frame._filters) |-> Frame._filters[i].text]

(* C17: running the finalization pass on what a pass left leaves it as it  *)
(* was: no transform directive is added, the data binding is not changed   *)
(* and text is not rendered again.                                         *)
C17_FinalizeIdempotent ==
    (out.op = "finalize_again") => out.obj = out.final

C17_Witness ==
    /\ out.op = "finalize_again"
    /\ out.arg.cls = "FacetedChart"
    /\ IsExprFrame(out.arg._data)
    /\ Len(out.arg._data._filters) = 2
    /\ IsTable(out.final._data)
    /\ "filter" \in DOMAIN Pipeline(out.final)
    /\ out.obj = out.final

====
